---------------------------- MODULE Spec2Model ----------------------------
(***************************************************************************)
(* thesaurus-rex: a backtracking matcher for algebraic regular languages.  *)
(*                                                                         *)
(* The model follows src/thesaurus-rex/src/main.rs.  A language is a tree  *)
(* (RegularLanguage), a word is a sequence of tokens, and a suffix of the  *)
(* word (a Rust slice &[A]) is the sequence of the tokens it holds: slices *)
(* are hashed and compared by content, and so are these sequences.         *)
(*                                                                         *)
(* try_match returns a lazy iterator over a coroutine.  A coroutine is     *)
(* modelled by a record holding its locals and its position (pc); one call *)
(* of Step runs the coroutines up to the next answer of the innermost      *)
(* iterator polled and hands the outcome (a yielded item, the end of the   *)
(* sequence, or "still running") up through the iterators that wait.       *)
(***************************************************************************)
EXTENDS Naturals, Integers, Sequences, FiniteSets, TLC

VARIABLES language, word, caller, matches, pc, emitted, result

vars == <<language, word, caller, matches, pc, emitted, result>>

(***************************************************************************)
(* Bounds of the model.                                                    *)
(***************************************************************************)
\* longest word given to the matcher
MaxLen == 3
\* largest number of nodes of an enumerated language tree
MaxSize == 4
\* longest word of 'a's given to the language of the test repeated_ambiguity
MaxRepeat == 4

\* the tokens of the alphabet (the tests use chars)
Tokens == {"a", "b"}

(***************************************************************************)
(* enum RegularLanguage<A>: a tree, the variant's name first.              *)
(***************************************************************************)
Empty == <<"Empty">>

Singleton(character) == <<"Singleton", character>>

Repetition(element) == <<"Repetition", element>>

Union(first, second) == <<"Union", first, second>>

Concatenation(first, second) == <<"Concatenation", first, second>>

Kind(l) == l[1]

\* mutant: the empty language instead of the language of the empty word
new_empty_word_is_empty_language == Empty

\* fn new_empty_word
new_empty_word == Repetition(Empty)

\* mutant: the last element is dropped instead of the first
SplitAt1Init(w) == SubSeq(w, 1, Len(w) - 1)

(***************************************************************************)
(* Slices.                                                                 *)
(***************************************************************************)
\* mutant: word.split_at(1).0, the head instead of the rest
SplitAt1Head(w) == SubSeq(w, 1, 1)

\* word.split_at(1).1
SplitAt1(w) == SubSeq(w, 2, Len(w))

\* mutant: the guard (character == head) left out
HeadIsAny(character, w) == Len(w) > 0

\* the pattern [head, ..] if (character == head)
HeadIs(character, w) == Len(w) > 0 /\ w[1] = character

\* mutant: the negated test, !element.is_empty()
IsNotEmptySlice(element) == Len(element) # 0

\* the closure of is_match's find: element.is_empty()
IsEmptySlice(element) == Len(element) = 0

\* mutant: a tail as long as the suffix it came from is kept
ShrinkFilterOrEqual(matched_tail, matched) == Len(matched_tail) <= Len(matched)

\* the closure of the Repetition arm's filter
ShrinkFilter(matched_tail, matched) == Len(matched_tail) < Len(matched)

(***************************************************************************)
(* Option<T> as a sequence of at most one element.                         *)
(***************************************************************************)
NoneOpt == <<>>

SomeOpt(x) == <<x>>

(***************************************************************************)
(* The outcome of one step of an iterator's next().                        *)
(***************************************************************************)
Running == [tag |-> "Running", value |-> <<>>]

Item(v) == [tag |-> "Some", value |-> v]

NoItem == [tag |-> "None", value |-> <<>>]

(***************************************************************************)
(* gen_to_iter over the coroutine of try_match(language, word): the        *)
(* CoroutineIter (state) with the coroutine's captured arguments, its      *)
(* position and its locals, none of them initialised yet.  Three counters  *)
(* record the history of the Repetition arm and steer nothing: iterations  *)
(* is the number of entries into the arm Some(matched) of the worklist     *)
(* loop, candidates the number of items the current inner_generator has    *)
(* handed to filter, widest the largest value candidates has had.          *)
(***************************************************************************)
NewGen(l, w) ==
    [ language        |-> l,
      word            |-> w,
      state           |-> "Pending",
      pc              |-> "start",
      results         |-> {},
      stack           |-> <<>>,
      matched         |-> NoneOpt,
      element_matches |-> <<>>,
      inner_generator |-> NoneOpt,
      already_yielded |-> {},
      first_match     |-> NoneOpt,
      first_matches   |-> NoneOpt,
      second_matches  |-> NoneOpt,
      iterations      |-> 0,
      candidates      |-> 0,
      widest          |-> 0 ]

\* CoroutineState::Complete: next() sets the state to Empty and returns None
Complete(g) ==
    [gen |-> [g EXCEPT !.state = "Empty", !.pc = "returned"], out |-> NoItem]

\* CoroutineState::Yielded(value): next() returns Some(value)
Yield(g, v) == [gen |-> g, out |-> Item(v)]

\* the coroutine goes on running
Continue(g) == [gen |-> g, out |-> Running]


(***************************************************************************)
(* CoroutineIter::next, one step of it (Step, defined after the arms): an  *)
(* exhausted iterator answers None without resuming; otherwise the         *)
(* coroutine runs on from its position.  A step ends when the coroutine    *)
(* has yielded or returned, or when it has polled a nested iterator once   *)
(* and dealt with the answer: every turn of every loop is a step of its    *)
(* own.                                                                    *)
(***************************************************************************)
RECURSIVE Step(_)

\* the element of a set of one element: Only({F(r) : r \in {e}}) is F(e), with
\* e computed once
Only(S) == CHOOSE x \in S : TRUE

\* RegularLanguage::Empty => {}
EmptyArm(g) == Complete(g)

\* RegularLanguage::Singleton(character)
SingletonArm(g) ==
    IF g.pc = "start" /\ HeadIs(g.language[2], g.word)
    THEN Yield([g EXCEPT !.pc = "yielded"], SplitAt1(g.word))
    ELSE Complete(g)

\* mutant: stack.insert(0, element_matches): the worklist as a queue of levels
RepetitionCollectNoneQueue(g) ==
    Continue([g EXCEPT !.stack = IF g.element_matches # <<>>
                                 THEN <<g.element_matches>> \o @
                                 ELSE @,
                       !.element_matches = <<>>,
                       !.inner_generator = NoneOpt,
                       !.matched = NoneOpt,
                       !.pc = "loop"])

\* Repetition: the inner generator is exhausted, collect() returns;
\* if !element_matches.is_empty() { stack.push(element_matches); }
RepetitionCollectNone(g) ==
    Continue([g EXCEPT !.stack = IF g.element_matches # <<>>
                                 THEN Append(@, g.element_matches)
                                 ELSE @,
                       !.element_matches = <<>>,
                       !.inner_generator = NoneOpt,
                       !.matched = NoneOpt,
                       !.pc = "loop"])

\* mutant: take_while instead of filter: collecting stops at the first tail that
\* is not shorter
RepetitionCollectSomeTakeWhile(g, matched_tail) ==
    IF ShrinkFilter(matched_tail, g.matched[1])
    THEN Continue([g EXCEPT !.element_matches = Append(@, matched_tail)])
    ELSE RepetitionCollectNone(g)

\* Repetition: filter(..).collect() receives an item of the inner generator
RepetitionCollectSome(g, matched_tail) ==
    LET counted == [g EXCEPT !.candidates = @ + 1,
                             !.widest = IF g.candidates + 1 > @ THEN g.candidates + 1 ELSE @]
    IN  IF ShrinkFilter(matched_tail, g.matched[1])
        THEN Continue([counted EXCEPT !.element_matches = Append(@, matched_tail)])
        ELSE Continue(counted)

\* RepetitionCollect: the answer r of the nested iterator is dealt with
RepetitionCollectPolled(g, r) ==
    LET g1 == [g EXCEPT !.inner_generator = SomeOpt(r.gen)]
    IN  CASE r.out.tag = "Running" -> Continue(g1)
          [] r.out.tag = "Some" -> RepetitionCollectSome(g1, r.out.value)
          [] r.out.tag = "None" -> RepetitionCollectNone(g1)

\* Repetition: collect() polls the inner generator
RepetitionCollect(g) == Only({RepetitionCollectPolled(g, r) : r \in {Step(g.inner_generator[1])}})

\* Repetition: let inner_generator = Box::new(try_match(&element, matched));
RepetitionExpand(g) ==
    RepetitionCollect([g EXCEPT !.inner_generator = SomeOpt(NewGen(g.language[2], g.matched[1])),
                                !.element_matches = <<>>,
                                !.candidates = 0,
                                !.pc = "collect"])

\* mutant: yield matched without asking results.insert(matched)
RepetitionLoopYieldAll(g) ==
    IF g.stack = <<>>
    THEN Complete(g)
    ELSE LET depth == Len(g.stack)
             last_element == g.stack[depth]
         IN  IF last_element = <<>>
             THEN Continue([g EXCEPT !.stack = SubSeq(g.stack, 1, depth - 1)])
             ELSE LET matched == last_element[Len(last_element)]
                  IN  Yield([g EXCEPT
                               !.stack[depth] = SubSeq(last_element, 1, Len(last_element) - 1),
                               !.matched = SomeOpt(matched),
                               !.iterations = @ + 1,
                               !.results = @ \cup {matched},
                               !.pc = "expand"],
                            matched)

\* mutant: last_element.last() instead of last_element.pop(): the pending suffix
\* stays on the stack
RepetitionLoopNoPop(g) ==
    IF g.stack = <<>>
    THEN Complete(g)
    ELSE LET depth == Len(g.stack)
             last_element == g.stack[depth]
         IN  IF last_element = <<>>
             THEN Continue([g EXCEPT !.stack = SubSeq(g.stack, 1, depth - 1)])
             ELSE LET matched == last_element[Len(last_element)]
                      kept == [g EXCEPT !.matched = SomeOpt(matched), !.pc = "expand"]
                  IN  IF matched \notin g.results
                      THEN Yield([kept EXCEPT !.results = @ \cup {matched}], matched)
                      ELSE RepetitionExpand(kept)

\* Repetition: one turn of the loop: break, stack.pop(), or last_element.pop()
\* with the yield of a suffix results did not hold
RepetitionLoop(g) ==
    IF g.stack = <<>>
    THEN Complete(g)
    ELSE LET depth == Len(g.stack)
             last_element == g.stack[depth]
         IN  IF last_element = <<>>
             THEN Continue([g EXCEPT !.stack = SubSeq(g.stack, 1, depth - 1)])
             ELSE LET matched == last_element[Len(last_element)]
                      popped == [g EXCEPT
                                   !.stack[depth] = SubSeq(last_element, 1, Len(last_element) - 1),
                                   !.matched = SomeOpt(matched),
                                   !.iterations = @ + 1,
                                   !.pc = "expand"]
                  IN  IF matched \notin g.results
                      THEN Yield([popped EXCEPT !.results = @ \cup {matched}], matched)
                      ELSE RepetitionExpand(popped)

\* mutant: the stack starts as vec![vec![]], without the word
RepetitionStartUnseeded(g) ==
    RepetitionLoop([g EXCEPT !.results = {}, !.stack = <<<<>>>>, !.pc = "loop"])

\* Repetition: let mut results = HashSet::new(); let mut stack = vec![vec![word]];
RepetitionStart(g) ==
    RepetitionLoop([g EXCEPT !.results = {}, !.stack = <<<<g.word>>>>, !.pc = "loop"])

\* Union: yield first_match;
UnionFirstSome(g, first_match) ==
    Yield([g EXCEPT !.first_match = SomeOpt(first_match), !.pc = "first_yielded"],
          first_match)

\* mutant: the first operand wins: the second one is tried only when the first
\* one has left nothing
UnionFirstNoneFirstWins(g) ==
    IF g.already_yielded # {}
    THEN Complete([g EXCEPT !.first_matches = NoneOpt])
    ELSE Continue([g EXCEPT !.first_matches = NoneOpt,
                            !.second_matches = SomeOpt(NewGen(g.language[3], g.word)),
                            !.pc = "for_second"])

\* Union: the first loop ends; let second_matches = Box::new(try_match(second, word));
UnionFirstNone(g) ==
    Continue([g EXCEPT !.first_matches = NoneOpt,
                       !.second_matches = SomeOpt(NewGen(g.language[3], g.word)),
                       !.pc = "for_second"])

\* UnionFirst: the answer r of the nested iterator is dealt with
UnionFirstPolled(g, r) ==
    LET g1 == [g EXCEPT !.first_matches = SomeOpt(r.gen)]
    IN  CASE r.out.tag = "Running" -> Continue(g1)
          [] r.out.tag = "Some" -> UnionFirstSome(g1, r.out.value)
          [] r.out.tag = "None" -> UnionFirstNone(g1)

\* Union: for first_match in first_matches
UnionFirst(g) == Only({UnionFirstPolled(g, r) : r \in {Step(g.first_matches[1])}})

\* Union: let first_matches = ..; let mut already_yielded = HashSet::new();
UnionStart(g) ==
    UnionFirst([g EXCEPT !.first_matches = SomeOpt(NewGen(g.language[2], g.word)),
                         !.already_yielded = {},
                         !.pc = "for_first"])

\* mutant: resumed after the yield without already_yielded.insert(first_match)
UnionFirstResumedNoInsert(g) ==
    UnionFirst([g EXCEPT !.first_match = NoneOpt, !.pc = "for_first"])

\* Union: resumed after the yield: already_yielded.insert(first_match);
UnionFirstResumed(g) ==
    UnionFirst([g EXCEPT !.already_yielded = @ \cup {g.first_match[1]},
                         !.first_match = NoneOpt,
                         !.pc = "for_first"])

\* mutant: if !already_yielded.is_empty() { continue; }
UnionSecondSomeSkipAfterFirst(g, second_match) ==
    IF g.already_yielded # {}
    THEN Continue(g)
    ELSE Yield(g, second_match)

\* Union: if already_yielded.contains(second_match) { continue; } yield second_match;
UnionSecondSome(g, second_match) ==
    IF second_match \in g.already_yielded
    THEN Continue(g)
    ELSE Yield(g, second_match)

\* Union: the second loop ends and the coroutine returns
UnionSecondNone(g) == Complete([g EXCEPT !.second_matches = NoneOpt])

\* UnionSecond: the answer r of the nested iterator is dealt with
UnionSecondPolled(g, r) ==
    LET g1 == [g EXCEPT !.second_matches = SomeOpt(r.gen)]
    IN  CASE r.out.tag = "Running" -> Continue(g1)
          [] r.out.tag = "Some" -> UnionSecondSome(g1, r.out.value)
          [] r.out.tag = "None" -> UnionSecondNone(g1)

\* Union: for second_match in second_matches
UnionSecond(g) == Only({UnionSecondPolled(g, r) : r \in {Step(g.second_matches[1])}})

\* mutant: try_match(&second, word): the second operand starts at the word again
ConcatenationFirstSomeOnWord(g, first_match) ==
    Continue([g EXCEPT !.first_match = SomeOpt(first_match),
                       !.second_matches = SomeOpt(NewGen(g.language[3], g.word)),
                       !.pc = "for_second"])

\* Concatenation: let second_matches = Box::new(try_match(&second, first_match));
ConcatenationFirstSome(g, first_match) ==
    Continue([g EXCEPT !.first_match = SomeOpt(first_match),
                       !.second_matches = SomeOpt(NewGen(g.language[3], first_match)),
                       !.pc = "for_second"])

\* Concatenation: the outer loop ends and the coroutine returns
ConcatenationFirstNone(g) == Complete([g EXCEPT !.first_matches = NoneOpt])

\* ConcatenationFirst: the answer r of the nested iterator is dealt with
ConcatenationFirstPolled(g, r) ==
    LET g1 == [g EXCEPT !.first_matches = SomeOpt(r.gen)]
    IN  CASE r.out.tag = "Running" -> Continue(g1)
          [] r.out.tag = "Some" -> ConcatenationFirstSome(g1, r.out.value)
          [] r.out.tag = "None" -> ConcatenationFirstNone(g1)

\* Concatenation: for first_match in first_matches
ConcatenationFirst(g) == Only({ConcatenationFirstPolled(g, r) : r \in {Step(g.first_matches[1])}})

\* Concatenation: let first_matches = Box::new(try_match(&first, word));
ConcatenationStart(g) ==
    ConcatenationFirst([g EXCEPT !.first_matches = SomeOpt(NewGen(g.language[2], g.word)),
                                 !.pc = "for_first"])

\* mutant: the shrink filter of the Repetition arm applied here: a second_match
\* that consumed nothing is dropped
ConcatenationSecondSomeShrinkOnly(g, second_match) ==
    IF Len(second_match) < Len(g.first_match[1])
    THEN Yield(g, second_match)
    ELSE Continue(g)

\* Concatenation: yield second_match;
ConcatenationSecondSome(g, second_match) == Yield(g, second_match)

\* mutant: the coroutine returns after the first first_match
ConcatenationSecondNoneReturn(g) ==
    Complete([g EXCEPT !.second_matches = NoneOpt, !.first_match = NoneOpt])

\* Concatenation: the inner loop ends, the outer loop asks for the next first_match
ConcatenationSecondNone(g) ==
    Continue([g EXCEPT !.second_matches = NoneOpt,
                       !.first_match = NoneOpt,
                       !.pc = "for_first"])

\* ConcatenationSecond: the answer r of the nested iterator is dealt with
ConcatenationSecondPolled(g, r) ==
    LET g1 == [g EXCEPT !.second_matches = SomeOpt(r.gen)]
    IN  CASE r.out.tag = "Running" -> Continue(g1)
          [] r.out.tag = "Some" -> ConcatenationSecondSome(g1, r.out.value)
          [] r.out.tag = "None" -> ConcatenationSecondNone(g1)

\* Concatenation: for second_match in second_matches
ConcatenationSecond(g) == Only({ConcatenationSecondPolled(g, r) : r \in {Step(g.second_matches[1])}})

Step(g) ==
    LET kind == Kind(g.language) IN
    CASE g.state = "Empty" -> [gen |-> g, out |-> NoItem]
      [] g.state # "Empty" /\ kind = "Empty" -> EmptyArm(g)
      [] g.state # "Empty" /\ kind = "Singleton" -> SingletonArm(g)
      [] g.state # "Empty" /\ kind = "Repetition" /\ g.pc = "start" -> RepetitionStart(g)
      [] g.state # "Empty" /\ kind = "Repetition" /\ g.pc = "loop" -> RepetitionLoop(g)
      [] g.state # "Empty" /\ kind = "Repetition" /\ g.pc = "expand" -> RepetitionExpand(g)
      [] g.state # "Empty" /\ kind = "Repetition" /\ g.pc = "collect" -> RepetitionCollect(g)
      [] g.state # "Empty" /\ kind = "Union" /\ g.pc = "start" -> UnionStart(g)
      [] g.state # "Empty" /\ kind = "Union" /\ g.pc = "for_first" -> UnionFirst(g)
      [] g.state # "Empty" /\ kind = "Union" /\ g.pc = "first_yielded" -> UnionFirstResumed(g)
      [] g.state # "Empty" /\ kind = "Union" /\ g.pc = "for_second" -> UnionSecond(g)
      [] g.state # "Empty" /\ kind = "Concatenation" /\ g.pc = "start" -> ConcatenationStart(g)
      [] g.state # "Empty" /\ kind = "Concatenation" /\ g.pc = "for_first" -> ConcatenationFirst(g)
      [] g.state # "Empty" /\ kind = "Concatenation" /\ g.pc = "for_second" -> ConcatenationSecond(g)

\* fn try_match: the iterator it returns, not yet polled
try_match(l, w) == NewGen(l, w)

(***************************************************************************)
(* A caller's loop over the iterator, as a function.  The loop's state is  *)
(* the iterator, the items received, and whether the loop has ended; a     *)
(* loop that has ended stays as it is.  PollTimes takes 2^k steps and      *)
(* PollRun takes steps until the loop has ended: the same steps, one after *)
(* the other, as the caller's actions below take.                          *)
(***************************************************************************)
PollStart(g, until_empty) ==
    [gen |-> g, items |-> <<>>, ended |-> FALSE, found |-> FALSE, until_empty |-> until_empty]

Poll(st) ==
    IF st.ended THEN st
    ELSE LET r == Step(st.gen)
         IN  CASE r.out.tag = "Running" -> [st EXCEPT !.gen = r.gen]
               [] r.out.tag = "Some" ->
                    [st EXCEPT !.gen = r.gen,
                               !.items = Append(@, r.out.value),
                               !.found = st.until_empty /\ IsEmptySlice(r.out.value),
                               !.ended = st.until_empty /\ IsEmptySlice(r.out.value)]
               [] r.out.tag = "None" -> [st EXCEPT !.gen = r.gen, !.ended = TRUE]

RECURSIVE PollTimes(_, _)
PollTimes(st, k) ==
    IF k = 0 THEN Poll(st)
    ELSE LET half == PollTimes(st, k - 1)
         IN  IF half.ended THEN half ELSE PollTimes(half, k - 1)

RECURSIVE PollRun(_, _)
PollRun(st, k) ==
    LET next == PollTimes(st, k)
    IN  IF next.ended THEN next ELSE PollRun(next, k + 1)

\* fn is_match: find stops at the first empty slice (true) or at None (false)
is_match(l, w) == PollRun(PollStart(try_match(l, w), TRUE), 0).found

\* try_match(l, w).collect(): the items of the iterator, in order, up to None
Drain(l, w) == PollRun(PollStart(try_match(l, w), FALSE), 0).items

(***************************************************************************)
(* The inputs: every language tree of at most MaxSize nodes, the languages *)
(* of the tests, and the words of at most MaxLen tokens.                   *)
(***************************************************************************)
RECURSIVE LanguagesOfSize(_)
LanguagesOfSize(n) ==
    IF n = 1
    THEN {Empty} \cup {Singleton(t) : t \in Tokens}
    ELSE {Repetition(l) : l \in LanguagesOfSize(n - 1)}
         \cup UNION {{Union(l1, l2) : l1 \in LanguagesOfSize(k),
                                      l2 \in LanguagesOfSize(n - 1 - k)} : k \in 1..(n - 2)}
         \cup UNION {{Concatenation(l1, l2) : l1 \in LanguagesOfSize(k),
                                              l2 \in LanguagesOfSize(n - 1 - k)} : k \in 1..(n - 2)}

EnumeratedLanguages == UNION {LanguagesOfSize(n) : n \in 1..MaxSize}

\* the language of the test match_repeated_empty_word
RepeatedEmptyWord == Concatenation(Repetition(new_empty_word), Singleton("a"))

\* the language of the test match_union_longer_match_wins
UnionLongerMatchWins == Union(Singleton("a"), Repetition(Singleton("a")))

\* the language of the test consider_empty_word_match
ConsiderEmptyWordMatch ==
    Concatenation(Union(Singleton("a"), new_empty_word), Singleton("a"))

\* the language of the test consider_non_empty_match
ConsiderNonEmptyMatch ==
    Concatenation(Union(Concatenation(Singleton("a"), Singleton("a")), Singleton("a")),
                  Singleton("a"))

\* the language of the test repeated_ambiguity
RepeatedAmbiguity ==
    Repetition(Union(Concatenation(Singleton("a"), Singleton("a")), Singleton("a")))

TestLanguages ==
    {RepeatedEmptyWord, UnionLongerMatchWins, ConsiderEmptyWordMatch,
     ConsiderNonEmptyMatch, RepeatedAmbiguity}

\* operands for the languages built of three parts
Operands == {Singleton(t) : t \in Tokens} \cup {Repetition(Singleton(t)) : t \in Tokens}

NestedConcatenations ==
    {Concatenation(Concatenation(l1, l2), l3) : l1 \in Operands, l2 \in Operands, l3 \in Operands}

Languages == EnumeratedLanguages \cup TestLanguages \cup NestedConcatenations

Words == UNION {[1..n -> Tokens] : n \in 0..MaxLen}

\* the words &['a'; n] of the test repeated_ambiguity
RepeatedWords == {[i \in 1..n |-> "a"] : n \in 1..MaxRepeat}

\* the pairs of a language and a word that try_match is called with
Inputs == (Languages \X Words) \cup ({RepeatedAmbiguity} \X RepeatedWords)

(***************************************************************************)
(* The callers.  is_match polls the iterator with find and stops at the    *)
(* first empty slice; "collect" is a caller that drains the iterator, as   *)
(* the Repetition arm does with its inner generator.                       *)
(***************************************************************************)
Init ==
    /\ \E input \in Inputs :
           /\ language = input[1]
           /\ word = input[2]
    /\ caller \in {"is_match", "collect"}
    /\ matches = try_match(language, word)
    /\ pc = "polling"
    /\ emitted = <<>>
    /\ result = FALSE

\* next() is still running inside the coroutines
Advance ==
    /\ pc = "polling"
    /\ \E r \in {Step(matches)} :
        /\ r.out.tag = "Running"
        /\ matches' = r.gen
    /\ UNCHANGED <<language, word, caller, pc, emitted, result>>

\* mutant: the empty slice is noted and the iterator is polled on to its end
FindFoundPollsOn ==
    /\ pc = "polling"
    /\ caller = "is_match"
    /\ \E r \in {Step(matches)} :
        /\ r.out.tag = "Some"
        /\ IsEmptySlice(r.out.value)
        /\ matches' = r.gen
        /\ emitted' = Append(emitted, r.out.value)
    /\ result' = TRUE
    /\ UNCHANGED <<language, word, caller, pc>>

\* is_match: find gets an empty slice and returns Some: is_match returns true
FindFound ==
    /\ pc = "polling"
    /\ caller = "is_match"
    /\ \E r \in {Step(matches)} :
        /\ r.out.tag = "Some"
        /\ IsEmptySlice(r.out.value)
        /\ matches' = r.gen
        /\ emitted' = Append(emitted, r.out.value)
    /\ result' = TRUE
    /\ pc' = "done"
    /\ UNCHANGED <<language, word, caller>>

\* is_match: find gets a non-empty slice and asks for the next item
FindSkip ==
    /\ pc = "polling"
    /\ caller = "is_match"
    /\ \E r \in {Step(matches)} :
        /\ r.out.tag = "Some"
        /\ ~IsEmptySlice(r.out.value)
        /\ matches' = r.gen
        /\ emitted' = Append(emitted, r.out.value)
    /\ UNCHANGED <<language, word, caller, pc, result>>

\* is_match: the iterator is exhausted, find returns None: is_match returns false
FindNone ==
    /\ pc = "polling"
    /\ caller = "is_match"
    /\ \E r \in {Step(matches)} :
        /\ r.out.tag = "None"
        /\ matches' = r.gen
    /\ result' = FALSE
    /\ pc' = "done"
    /\ UNCHANGED <<language, word, caller, emitted>>

\* collect: every item is kept
CollectSome ==
    /\ pc = "polling"
    /\ caller = "collect"
    /\ \E r \in {Step(matches)} :
        /\ r.out.tag = "Some"
        /\ matches' = r.gen
        /\ emitted' = Append(emitted, r.out.value)
    /\ UNCHANGED <<language, word, caller, pc, result>>

\* collect: the iterator is exhausted
CollectNone ==
    /\ pc = "polling"
    /\ caller = "collect"
    /\ \E r \in {Step(matches)} :
        /\ r.out.tag = "None"
        /\ matches' = r.gen
    /\ pc' = "done"
    /\ UNCHANGED <<language, word, caller, emitted, result>>

Next ==
    \/ Advance
    \/ FindFound
    \/ FindSkip
    \/ FindNone
    \/ CollectSome
    \/ CollectNone

Spec == Init /\ [][Next]_vars

\* the program is one thread that runs whenever it can
FairSpec == Spec /\ WF_vars(Next)

(***************************************************************************)
(* Reference semantics, used by the properties below.                      *)
(***************************************************************************)
Range(items) == {items[i] : i \in 1..Len(items)}

Prefix(w, i) == SubSeq(w, 1, i)

Suffix(w, i) == SubSeq(w, i + 1, Len(w))

\* the match set of the case semantics: the suffixes of w left by a prefix in l;
\* for a Repetition, the least set that contains w and is closed under the matches
\* of the element (Closure)
RECURSIVE Matches(_, _)
RECURSIVE Closure(_, _, _)
Closure(element, seen, frontier) ==
    IF frontier = {} THEN seen
    ELSE LET s == CHOOSE x \in frontier : TRUE
             now == seen \cup {s}
         IN  Closure(element, now, (frontier \cup Matches(element, s)) \ now)

Matches(l, w) ==
    CASE Kind(l) = "Empty" -> {}
      [] Kind(l) = "Singleton" ->
            IF Len(w) > 0 /\ w[1] = l[2] THEN {Suffix(w, 1)} ELSE {}
      [] Kind(l) = "Union" -> Matches(l[2], w) \cup Matches(l[3], w)
      [] Kind(l) = "Concatenation" -> UNION {Matches(l[3], s) : s \in Matches(l[2], w)}
      [] Kind(l) = "Repetition" -> Closure(l[2], {}, {w})

\* w is a word of the regular language l denotes
RECURSIVE InLanguage(_, _)
InLanguage(l, w) ==
    CASE Kind(l) = "Empty" -> FALSE
      [] Kind(l) = "Singleton" -> w = <<l[2]>>
      [] Kind(l) = "Union" -> InLanguage(l[2], w) \/ InLanguage(l[3], w)
      [] Kind(l) = "Concatenation" ->
            \E i \in 0..Len(w) : InLanguage(l[2], Prefix(w, i)) /\ InLanguage(l[3], Suffix(w, i))
      [] Kind(l) = "Repetition" ->
            \/ w = <<>>
            \/ \E i \in 1..Len(w) : InLanguage(l[2], Prefix(w, i)) /\ InLanguage(l, Suffix(w, i))

Returned == pc = "done" /\ caller = "is_match"

Drained == pc = "done" /\ caller = "collect"

(***************************************************************************)
(* C1: draining try_match(L, w) emits exactly the suffixes of the match    *)
(* set the case semantics define for L and w.                              *)
(***************************************************************************)
C1_DrainIsMatchSet == Drained => Range(emitted) = Matches(language, word)

\* a drained Repetition over a Union that left three different suffixes
C1_Witness ==
    /\ Drained
    /\ Kind(language) = "Repetition"
    /\ Kind(language[2]) = "Union"
    /\ Cardinality(Range(emitted)) >= 3

(***************************************************************************)
(* C2: is_match returns true exactly when the zero-length suffix is in the *)
(* match set of L on w, that is exactly when w is a word of the language   *)
(* L denotes; otherwise it returns false.                                  *)
(***************************************************************************)
C2_IsMatchDecides ==
    Returned =>
        /\ result \in BOOLEAN
        /\ result = (<<>> \in Range(Drain(language, word)))
        /\ result = InLanguage(language, word)

\* is_match has returned false on a word the language leaves a rest of
C2_Witness ==
    /\ Returned
    /\ result = FALSE
    /\ Len(word) = 2
    /\ Len(emitted) >= 2

(***************************************************************************)
(* C3: is_match and a full drain of try_match terminate for every language *)
(* and word, also when the element of a Repetition matches the empty word, *)
(* and on the ambiguous language of the test repeated_ambiguity is_match   *)
(* ends with true on every word of 'a's.                                   *)
(***************************************************************************)
OnlyAs(w) == \A i \in 1..Len(w) : w[i] = "a"

C3_Terminates ==
    <>(/\ pc = "done"
       /\ (caller = "is_match" /\ language = RepeatedAmbiguity /\ OnlyAs(word)
              => result = TRUE))

\* is_match has returned true on the ambiguous language and the longest word of 'a's
C3_Witness ==
    /\ Returned
    /\ language = RepeatedAmbiguity
    /\ OnlyAs(word)
    /\ Len(word) = MaxLen
    /\ result = TRUE

(***************************************************************************)
(* C4: flattening law: is_match(Repetition(L), w) equals                   *)
(* is_match(Repetition(Repetition(L)), w).                                 *)
(***************************************************************************)
C4_Flattening ==
    Returned /\ Kind(language) = "Repetition"
        => result = is_match(Repetition(language), word)

\* is_match has returned true on a Repetition that needed two turns
C4_Witness ==
    /\ Returned
    /\ Kind(language) = "Repetition"
    /\ Len(word) = 2
    /\ result = TRUE

(***************************************************************************)
(* C5: Union acceptance is commutative: is_match(Union(L1, L2), w) equals  *)
(* is_match(Union(L2, L1), w).                                             *)
(***************************************************************************)
C5_UnionCommutes ==
    Returned /\ Kind(language) = "Union"
        => result = is_match(Union(language[3], language[2]), word)

\* is_match has returned true on a Union only one operand of which accepts the word
C5_Witness ==
    /\ Returned
    /\ Kind(language) = "Union"
    /\ result = TRUE
    /\ ~is_match(language[2], word)
    /\ is_match(language[3], word)

(***************************************************************************)
(* C6: Concatenation acceptance is associative:                            *)
(* is_match(Concatenation(Concatenation(L1, L2), L3), w) equals            *)
(* is_match(Concatenation(L1, Concatenation(L2, L3)), w).                  *)
(***************************************************************************)
C6_ConcatenationAssociates ==
    Returned /\ Kind(language) = "Concatenation" /\ Kind(language[2]) = "Concatenation"
        => result = is_match(Concatenation(language[2][2],
                                           Concatenation(language[2][3], language[3])),
                             word)

\* is_match has returned true on a nested Concatenation with a Repetition first
C6_Witness ==
    /\ Returned
    /\ Kind(language) = "Concatenation"
    /\ Kind(language[2]) = "Concatenation"
    /\ Kind(language[2][2]) = "Repetition"
    /\ Len(word) = MaxLen
    /\ result = TRUE

(***************************************************************************)
(* C7: is_match(Concatenation(L1, L2), w) is true exactly when w splits as *)
(* u.v with is_match(L1, u) and is_match(L2, v); every suffix L1 leaves is *)
(* a start for L2, not only the first one.                                 *)
(***************************************************************************)
C7_ConcatenationSplits ==
    /\ Returned /\ Kind(language) = "Concatenation"
          => result = (\E i \in 0..Len(word) :
                          /\ is_match(language[2], Prefix(word, i))
                          /\ is_match(language[3], Suffix(word, i)))
    /\ Drained /\ Kind(language) = "Concatenation"
          => Range(emitted) = UNION {Range(Drain(language[3], s)) :
                                        s \in Range(Drain(language[2], word))}

\* true came from the second suffix the first operand left, not from its first one
C7_Witness ==
    /\ Returned
    /\ Kind(language) = "Concatenation"
    /\ result = TRUE
    /\ Len(Drain(language[2], word)) >= 2
    /\ ~is_match(language[3], Drain(language[2], word)[1])

(***************************************************************************)
(* C8: Union has no precedence between its branches: every suffix either   *)
(* operand leaves is emitted, so is_match(Union(L1, L2), w) is             *)
(* is_match(L1, w) or is_match(L2, w), also when the first operand matches *)
(* a shorter prefix and only the second one consumes all of w.             *)
(***************************************************************************)
C8_UnionKeepsBoth ==
    /\ Drained /\ Kind(language) = "Union"
          => Range(emitted) = Range(Drain(language[2], word)) \cup Range(Drain(language[3], word))
    /\ Returned /\ Kind(language) = "Union"
          => result = (is_match(language[2], word) \/ is_match(language[3], word))

\* the first operand matched a shorter prefix and the second one all of the word
C8_Witness ==
    /\ Returned
    /\ language = UnionLongerMatchWins
    /\ Len(word) = 2
    /\ Drain(language[2], word) # <<>>
    /\ ~is_match(language[2], word)
    /\ result = TRUE

(***************************************************************************)
(* C9: is_match(Repetition(L), []) is true for every L.                    *)
(***************************************************************************)
C9_RepetitionAcceptsEmptyWord ==
    Returned /\ Kind(language) = "Repetition" /\ word = <<>> => result = TRUE

\* is_match has returned on the empty word and a Repetition of a language matching nothing
C9_Witness ==
    /\ Returned
    /\ language = Repetition(Empty)
    /\ word = <<>>

(***************************************************************************)
(* C10: is_match(new_empty_word(), w) is true exactly when w is empty.     *)
(***************************************************************************)
C10_EmptyWordLanguage ==
    Returned /\ language = new_empty_word => result = (word = <<>>)

\* is_match has returned false on new_empty_word() and a word of one token
C10_Witness ==
    /\ Returned
    /\ language = new_empty_word
    /\ Len(word) = 1
    /\ result = FALSE

(***************************************************************************)
(* C11: is_match(Singleton(a), w) is true exactly when w has one element   *)
(* and that element is a.                                                  *)
(***************************************************************************)
C11_SingletonAcceptsOneToken ==
    Returned /\ Kind(language) = "Singleton"
        => result = (Len(word) = 1 /\ word[1] = language[2])

\* is_match has returned false on a word of two tokens that starts with the token
C11_Witness ==
    /\ Returned
    /\ Kind(language) = "Singleton"
    /\ Len(word) = 2
    /\ word[1] = language[2]
    /\ result = FALSE

NoDuplicates(items) ==
    \A i, j \in 1..Len(items) : i /= j => items[i] /= items[j]

(***************************************************************************)
(* C12: the sequence of suffixes emitted by try_match(L, w) contains each  *)
(* suffix at most once, whatever the number of derivations reaching it.    *)
(***************************************************************************)
C12_EmittedOnce == caller = "collect" => NoDuplicates(emitted)

(***************************************************************************)
(* C13: one evaluation of Repetition(L) on a word of length n makes at     *)
(* most (n+1)*b worklist iterations, b being the largest number of         *)
(* candidates one inner expansion returns: a suffix already recorded is    *)
(* not expanded over and over, once per derivation.  An expansion that     *)
(* returns nothing counts as one candidate, so that the one iteration on   *)
(* the word itself is within the bound.                                    *)
(***************************************************************************)
C13_IterationsBounded ==
    Drained /\ Kind(language) = "Repetition"
        => matches.iterations
              <= (Len(word) + 1) * (IF matches.widest = 0 THEN 1 ELSE matches.widest)

\* the generator g and every generator nested in it
RECURSIVE Generators(_)
Generators(g) ==
    {g} \cup UNION {Generators(nested[1]) :
                      nested \in {g.inner_generator, g.first_matches, g.second_matches}
                                 \ {NoneOpt}}

\* the Repetition generators at work, the nested ones included
Repetitions == {g \in Generators(matches) : Kind(g.language) = "Repetition"}

(***************************************************************************)
(* C14: shrink invariant of a Repetition evaluation: every suffix kept as  *)
(* pending work is strictly shorter than the suffix whose expansion        *)
(* produced it; every suffix in stack level k (the word's level being      *)
(* level 0) has length at most len(word) - k; the stack holds at most      *)
(* len(word) + 1 levels; a zero-width match of the inner language, which   *)
(* returns the expanded suffix itself, creates no pending work.            *)
(***************************************************************************)
C14_ShrinkInvariant ==
    \A g \in Repetitions :
        /\ Len(g.stack) <= Len(g.word) + 1
        /\ \A k \in 1..Len(g.stack) :
               \A i \in 1..Len(g.stack[k]) : Len(g.stack[k][i]) <= Len(g.word) - (k - 1)
        /\ g.matched /= NoneOpt =>
               \A i \in 1..Len(g.element_matches) :
                   /\ Len(g.element_matches[i]) < Len(g.matched[1])
                   /\ g.element_matches[i] /= g.matched[1]

\* the stack of Repetition(Repetition(..)), whose inner language matches with
\* zero width, has reached len(word) + 1 levels on a word of two tokens or more
C14_Witness ==
    /\ Kind(language) = "Repetition"
    /\ Kind(language[2]) = "Repetition"
    /\ Len(word) >= 2
    /\ Len(matches.stack) = Len(word) + 1
    /\ matches.stack[Len(word) + 1] /= <<>>

IsPrefixOf(items, all) ==
    Len(items) <= Len(all) /\ items = SubSeq(all, 1, Len(items))

\* the sequence of first followed by the items of second that first does not hold
UnionOrder(first, second) ==
    LET NotInFirst(item) == item \notin Range(first)
    IN  first \o SelectSeq(second, NotInFirst)

(***************************************************************************)
(* C15: try_match(Union(L1, L2), w) emits the whole sequence of            *)
(* try_match(L1, w) in its order, and after it the sequence of             *)
(* try_match(L2, w) in its order without the suffixes L1 has emitted: at   *)
(* every moment the emitted items are a prefix of that sequence, and a     *)
(* drained run has emitted all of it.                                      *)
(***************************************************************************)
C15_UnionOrder ==
    Kind(language) = "Union" =>
        LET order == UnionOrder(Drain(language[2], word), Drain(language[3], word))
        IN  /\ IsPrefixOf(emitted, order)
            /\ Drained => emitted = order

\* a drained Union whose second operand has left a suffix that was skipped and,
\* after it, one that was emitted
C15_Witness ==
    /\ Drained
    /\ Kind(language) = "Union"
    /\ LET first == Drain(language[2], word)
           second == Drain(language[3], word)
       IN  /\ first /= <<>>
           /\ \E i, j \in 1..Len(second) :
                  /\ i < j
                  /\ second[i] \in Range(first)
                  /\ second[j] \notin Range(first)

\* the sequences of try_match(second, s), for s over first in its order, one
\* after the other
RECURSIVE ConcatenationOrder(_, _)
ConcatenationOrder(first, second) ==
    IF first = <<>>
    THEN <<>>
    ELSE Drain(second, Head(first)) \o ConcatenationOrder(Tail(first), second)

(***************************************************************************)
(* C16: try_match(Concatenation(L1, L2), w) emits, for each suffix s of    *)
(* try_match(L1, w) in L1's order, the whole sequence of try_match(L2, s)  *)
(* before it asks L1 for its next suffix: the output is those sequences    *)
(* one after the other; while the second operand runs on the k-th suffix   *)
(* of L1, the emitted items are the sequences of the k-1 suffixes before   *)
(* it and a prefix of the sequence of the k-th.                            *)
(***************************************************************************)
C16_ConcatenationOrder ==
    Kind(language) = "Concatenation" =>
        LET first == Drain(language[2], word)
        IN  /\ IsPrefixOf(emitted, ConcatenationOrder(first, language[3]))
            /\ Drained => emitted = ConcatenationOrder(first, language[3])
            /\ matches.second_matches /= NoneOpt =>
                   \E k \in 1..Len(first) :
                       LET before == ConcatenationOrder(SubSeq(first, 1, k - 1), language[3])
                       IN  /\ first[k] = matches.first_match[1]
                           /\ IsPrefixOf(before, emitted)
                           /\ IsPrefixOf(SubSeq(emitted, Len(before) + 1, Len(emitted)),
                                         Drain(language[3], first[k]))

\* a drained Concatenation whose first operand left two suffixes or more, two of
\* them with a sequence of the second operand that is not empty
C16_Witness ==
    /\ Drained
    /\ Kind(language) = "Concatenation"
    /\ LET first == Drain(language[2], word)
       IN  \E i, j \in 1..Len(first) :
               /\ i < j
               /\ Len(Drain(language[3], first[i])) >= 2
               /\ Drain(language[3], first[j]) /= <<>>

(***************************************************************************)
(* C17: try_match(Repetition(L), w) emits w itself first; a popped suffix  *)
(* that results does not hold yet is emitted at the moment it is popped,   *)
(* before the inner language is expanded on it, so that results is always  *)
(* the set of the emitted suffixes and the suffix under expansion is one   *)
(* of them; a suffix in results is never emitted a second time.            *)
(***************************************************************************)
C17_RepetitionEmission ==
    Kind(language) = "Repetition" =>
        /\ emitted /= <<>> => emitted[1] = word
        /\ pc = "done" /\ matches.state = "Empty" => emitted /= <<>>
        /\ matches.results = Range(emitted)
        /\ matches.pc = "expand" =>
               /\ matches.inner_generator = NoneOpt
               /\ emitted /= <<>>
               /\ matches.matched = SomeOpt(emitted[Len(emitted)])
        /\ matches.matched /= NoneOpt => matches.matched[1] \in Range(emitted)
        /\ NoDuplicates(emitted)

\* a drained Repetition that popped more suffixes than it emitted: some of them
\* were in results already
C17_Witness ==
    /\ Drained
    /\ Kind(language) = "Repetition"
    /\ Len(emitted) >= 3
    /\ matches.iterations > Len(emitted)

\* the items of a sequence up to its first empty slice, that one included
RECURSIVE UpToFirstEmpty(_)
UpToFirstEmpty(items) ==
    IF items = <<>>
    THEN <<>>
    ELSE IF Head(items) = <<>>
         THEN <<Head(items)>>
         ELSE <<Head(items)>> \o UpToFirstEmpty(Tail(items))

(***************************************************************************)
(* C18: is_match looks at each suffix as it is produced: as long as it     *)
(* polls, no emitted suffix is empty; it returns true at the first empty   *)
(* suffix, having asked for no item after it, and the suspended coroutines *)
(* are not resumed any more; it returns false only when the sequence has   *)
(* been exhausted and holds no empty suffix.                               *)
(***************************************************************************)
C18_EarlyExit ==
    caller = "is_match" =>
        /\ pc = "polling" => <<>> \notin Range(emitted)
        /\ Returned /\ result =>
               /\ emitted = UpToFirstEmpty(Drain(language, word))
               /\ emitted[Len(emitted)] = <<>>
               /\ matches.state = "Pending"
        /\ Returned /\ ~result =>
               /\ matches.state = "Empty"
               /\ emitted = Drain(language, word)
               /\ <<>> \notin Range(emitted)
        /\ Returned => ~ENABLED Next

\* is_match has returned true and the sequence had more items to give, an empty
\* suffix among them
C18_Witness ==
    /\ Returned
    /\ result
    /\ Len(emitted) >= 2
    /\ LET all == Drain(language, word)
       IN  /\ Len(all) > Len(emitted) + 1
           /\ <<>> \in Range(SubSeq(all, Len(emitted) + 1, Len(all)))

\* items is what is left of w from some offset in 0..Len(w) to its end
IsSuffixOf(items, w) ==
    /\ Len(items) <= Len(w)
    /\ items = SubSeq(w, Len(w) - Len(items) + 1, Len(w))

\* every slice the generator g holds in its locals
Stored(g) ==
    UNION {Range(g.stack[k]) : k \in 1..Len(g.stack)}
        \cup g.results
        \cup g.already_yielded
        \cup Range(g.element_matches)
        \cup Range(g.matched)
        \cup Range(g.first_match)

(***************************************************************************)
(* C19: every emitted item, and every item a generator keeps in a          *)
(* Repetition worklist or in a set of seen items, is a suffix of the input *)
(* word: it ends where the word ends and is not longer than the word the   *)
(* generator was called with, itself such a suffix; so two kept items are  *)
(* equal by content exactly when they start at the same offset, that is    *)
(* when they have the same length.                                         *)
(***************************************************************************)
C19_SuffixesOfTheWord ==
    /\ \A i \in 1..Len(emitted) : IsSuffixOf(emitted[i], word)
    /\ \A g \in Generators(matches) :
           /\ IsSuffixOf(g.word, word)
           /\ \A item \in Stored(g) : IsSuffixOf(item, g.word)
           /\ \A item, other \in Stored(g) \cup Range(emitted) :
                  (item = other) <=> (Len(item) = Len(other))

\* a nested Repetition called with a proper suffix of a word of both tokens holds
\* two suffixes in results and pending work on its stack
C19_Witness ==
    /\ Len(word) = 3
    /\ Range(word) = Tokens
    /\ \E g \in Repetitions :
           /\ g /= matches
           /\ Len(g.word) < Len(word)
           /\ Cardinality(g.results) >= 2
           /\ \E k \in 1..Len(g.stack) : g.stack[k] /= <<>>

\* the items of a sequence without the later occurrences of an item
RECURSIVE FirstOccurrences(_)
FirstOccurrences(items) ==
    IF items = <<>>
    THEN <<>>
    ELSE LET front == FirstOccurrences(SubSeq(items, 1, Len(items) - 1))
             last == items[Len(items)]
         IN  IF last \in Range(front) THEN front ELSE Append(front, last)

\* the suffixes reached from s in depth-first order: s, then for each shorter
\* suffix the element leaves of s, the last one first, all that is reached from it
RECURSIVE DepthFirst(_, _)
RECURSIVE DepthFirstAll(_, _)
DepthFirst(element, s) ==
    LET Shorter(tail) == Len(tail) < Len(s)
    IN  <<s>> \o DepthFirstAll(element, SelectSeq(Drain(element, s), Shorter))

DepthFirstAll(element, pending) ==
    IF pending = <<>>
    THEN <<>>
    ELSE DepthFirst(element, pending[Len(pending)])
             \o DepthFirstAll(element, SubSeq(pending, 1, Len(pending) - 1))

(***************************************************************************)
(* C20, as stated: the Repetition worklist is a breadth-first expansion:   *)
(* no pending suffix produced by k+1 applications of the inner language    *)
(* is popped while a suffix produced by k applications or fewer is still   *)
(* pending.  Stack level k holds the suffixes produced by k applications   *)
(* (the word's level being level 0), and a suffix is popped from the last  *)
(* level.                                                                  *)
(***************************************************************************)
C20_BreadthFirst ==
    \A g \in Repetitions :
        g.matched /= NoneOpt =>
            \A k \in 1..(Len(g.stack) - 1) : g.stack[k] = <<>>

\* one step of a Repetition at the top keeps the discipline of a stack: a suffix
\* is popped from the end of the last level, a new level goes on top of the
\* levels that are pending, and only an empty last level is taken away
DepthFirstStep ==
    Kind(language) = "Repetition" /\ matches.iterations > 0 =>
        LET depth == Len(matches.stack)
        IN  /\ matches'.iterations /= matches.iterations =>
                   /\ matches'.iterations = matches.iterations + 1
                   /\ depth > 0
                   /\ matches.stack[depth] /= <<>>
                   /\ LET last_element == matches.stack[depth]
                      IN  /\ matches'.stack =
                                 [matches.stack EXCEPT
                                    ![depth] = SubSeq(last_element, 1, Len(last_element) - 1)]
                          /\ matches'.matched
                                 \in {NoneOpt, SomeOpt(last_element[Len(last_element)])}
            /\ Len(matches'.stack) > depth =>
                   /\ matches'.iterations = matches.iterations
                   /\ matches.element_matches /= <<>>
                   /\ matches'.stack = Append(matches.stack, matches.element_matches)
            /\ Len(matches'.stack) < depth =>
                   /\ matches.stack[depth] = <<>>
                   /\ matches'.stack = SubSeq(matches.stack, 1, depth - 1)

\* the emitted sequence of a Repetition at the top is the depth-first order
\* without the later occurrences of a suffix
DepthFirstEmission ==
    Kind(language) = "Repetition" =>
        LET order == FirstOccurrences(DepthFirst(language[2], word))
        IN  /\ IsPrefixOf(emitted, order)
            /\ Drained => emitted = order

(***************************************************************************)
(* C20, amended: the Repetition worklist is a depth-first expansion: the   *)
(* suffixes the inner language leaves of a popped suffix are popped, the   *)
(* last one first, each with all that is reached from it, before the       *)
(* suffixes that were pending when it was popped; the emitted sequence is  *)
(* this order without the later occurrences of a suffix.                   *)
(***************************************************************************)
C20_DepthFirst == []DepthFirstEmission /\ [][DepthFirstStep]_vars

\* a suffix popped from the third level of the stack or a deeper one while the
\* second level still holds a pending suffix
C20_Witness ==
    /\ Kind(language) = "Repetition"
    /\ matches.matched /= NoneOpt
    /\ Len(matches.stack) >= 3
    /\ matches.stack[2] /= <<>>
    /\ Len(emitted) >= 3

=============================================================================
